---- MODULE Spec2Model ----
(***************************************************************************)
(* ALDL diagnostic-bus tooling of the 68HC11 Delco PCM kit.                *)
(*                                                                         *)
(* Modelled from the sources:                                              *)
(*   shared/aldl_protocol.h   constants, aldl_checksum,                    *)
(*                            calculate_security_key                       *)
(*   examples/mode4_responder.c   the mode-4 reply of handle_mode4         *)
(* The frame codec, the mode dispatcher and the security session have no   *)
(* C source in the tree; they are modelled from the design document and    *)
(* are marked as such where they are defined.                              *)
(***************************************************************************)
EXTENDS Integers, Sequences, FiniteSets, TLC

VARIABLES
    \* harness of the pure functions: the function called, its argument,
    \* its return value and the position of the caller
    fn, arg, ret, pc,
    \* transport and frame decoder
    wire, dstate, deviceId, lengthByte, mode, payload, derr, sent,
    \* security session of the connection and the dispatcher's last step
    secState, seedHi, seedLo, reply, invoked,
    \* the connection the session belongs to, the connection of the last
    \* unlock, the mode-6 requests dispatched under that unlock, and the
    \* mode-5/6 operation in progress
    conn, unlockedIn, unlockUses, flashOp,
    \* the mode-4 responder: its receive line, its position in main and
    \* handle_mode4, the status it last reported, the PORTB register, the
    \* bytes transmitted. The locals target, mode and control are each
    \* tested in the step that reads them and never read again.
    sci, rpc, fan_state, portb, txd,
    \* the stand-alone control loops: fan_on and the coolant reading of
    \* fan_control.c; limiter_active, the flags byte at $0046 and the RPM
    \* byte read of rpm_limiter.c
    fan_on, temp_raw, limiter_active, flags, rpm

fnVars  == <<fn, arg, ret, pc>>
decVars == <<wire, dstate, deviceId, lengthByte, mode, payload, derr, sent>>
secVars == <<secState, seedHi, seedLo, reply, invoked>>
conVars == <<conn, unlockedIn, unlockUses, flashOp>>
rspVars == <<sci, rpc, fan_state, portb, txd>>
appVars == <<fan_on, temp_raw, limiter_active, flags, rpm>>
vars    == <<fnVars, decVars, secVars, conVars, rspVars, appVars>>

(***************************************************************************)
(* Integer widths of the C types                                           *)
(***************************************************************************)
Byte   == 0..255
U8(x)  == x % 256
U16(x) == x % 65536

(***************************************************************************)
(* aldl_protocol.h: constants                                              *)
(***************************************************************************)
DEVICE_PCM       == 244
DEVICE_PCM_VY_V6 == 247
DEVICE_BCM       == 241
DEVICE_IPC       == 240
\* a variant that repeats the id of the line above
DEVICE_ABS_asIpc == DEVICE_IPC
DEVICE_ABS       == 249
DEVICE_SCAN_TOOL == 240

MODE_1  == 1
MODE_4  == 4
MODE_5  == 5
MODE_6  == 6
MODE_13 == 13

\* a variant one short of the offset
ALDL_LENGTH_OFFSET_short == 85 - 1
ALDL_LENGTH_OFFSET    == 85
ALDL_SIMPLE_LENGTH    == 86
ALDL_SEED_REQ_LENGTH  == 87
ALDL_KEY_RESP_HEADER  == 88
\* a variant that sends the seed under the key-response header
ALDL_SEED_RESP_LENGTH_asKeyHeader == ALDL_KEY_RESP_HEADER
ALDL_SEED_RESP_LENGTH == 89

RESPONSE_OK       == 170
\* a variant that answers with the acceptance code
RESPONSE_FAIL_asOk == RESPONSE_OK
RESPONSE_FAIL     == 85
\* a variant that refuses with the failure code
RESPONSE_REJECTED_asFail == RESPONSE_FAIL
RESPONSE_REJECTED == 204

PCM_SECURITY_MAGIC == 37709

(***************************************************************************)
(* Bounds of the checked instances                                         *)
(***************************************************************************)
\* longest byte sequence enumerated exhaustively over ByteSample
MaxShort == 3

ByteSample == {0, 1, 85, 128, 255}

RECURSIVE SeqsUpTo(_, _)
SeqsUpTo(S, n) ==
    IF n = 0 THEN {<<>>}
    ELSE LET shorter == SeqsUpTo(S, n - 1)
         IN  shorter \cup {Append(s, b) : s \in {t \in shorter : Len(t) = n - 1}, b \in S}

Fill(n, b) == [i \in 1..n |-> b]
Ramp(n)    == [i \in 1..n |-> i % 256]

\* mathematical sum of a byte sequence, no machine width
RECURSIVE SumRange(_, _, _)
SumRange(s, lo, hi) ==
    IF lo > hi THEN 0
    ELSE IF lo = hi THEN s[lo]
    ELSE LET mid == (lo + hi) \div 2
         IN  SumRange(s, lo, mid) + SumRange(s, mid + 1, hi)

SumSeq(s) == SumRange(s, 1, Len(s))

Min(a, b) == IF a < b THEN a ELSE b

(***************************************************************************)
(* aldl_checksum (aldl_protocol.h:201-207)                                 *)
(***************************************************************************)
\* for (uint8_t i = 0; i < len; i++) sum += data[i];   sum is uint16_t
\* The iterations of the loop from the loop state st = <<i, sum>> up to
\* index stop, in order.
RECURSIVE aldl_checksum_iter(_, _, _)
aldl_checksum_iter(data, stop, st) ==
    IF st[1] < stop
    THEN aldl_checksum_iter(data, stop, <<U8(st[1] + 1), U16(st[2] + data[st[1] + 1])>>)
    ELSE st

\* The whole loop: the same iterations in the same order, evaluated sixteen
\* at a time. Returns the final value of sum.
RECURSIVE aldl_checksum_loop(_, _, _)
aldl_checksum_loop(data, len, st) ==
    IF st[1] < len
    THEN aldl_checksum_loop(data, len,
                            aldl_checksum_iter(data, Min(len, st[1] + 16), st))
    ELSE st[2]

\* a variant that takes the one's complement of the sum
aldl_checksum_ones(data, len) ==
    U8(255 - (aldl_checksum_loop(data, len, <<0, 0>>) % 256))

\* a variant whose loop starts at index 1 and so leaves data[0] out
aldl_checksum_skipfirst(data, len) ==
    U8((256 - (aldl_checksum_loop(data, len, <<1, 0>>) % 256)) % 256)

\* return (uint8_t)((256 - (sum & 0xFF)) & 0xFF);
aldl_checksum(data, len) ==
    U8((256 - (aldl_checksum_loop(data, len, <<0, 0>>) % 256)) % 256)

(***************************************************************************)
(* calculate_security_key (aldl_protocol.h:216-221)                        *)
(***************************************************************************)
\* the int32_t value after "if (key < 0) key += 65536"
\* a variant without the line "if (key < 0) key += 65536"
security_key_nowrap(seed_hi, seed_lo) ==
    PCM_SECURITY_MAGIC - U16(seed_lo * 256 + seed_hi)

security_key_wrapped(seed_hi, seed_lo) ==
    LET seed == U16(seed_lo * 256 + seed_hi)
        key  == PCM_SECURITY_MAGIC - seed
    IN  IF key < 0 THEN key + 65536 ELSE key

\* a variant that combines the seed bytes in transmission order
calculate_security_key_noswap(seed_hi, seed_lo) ==
    U16(security_key_wrapped(seed_lo, seed_hi))

calculate_security_key(seed_hi, seed_lo) ==
    U16(security_key_wrapped(seed_hi, seed_lo))

(***************************************************************************)
(* Harness: one call of a pure function on one input                       *)
(***************************************************************************)
ChecksumInputs ==
    SeqsUpTo(ByteSample, MaxShort)
        \cup {Fill(n, b) : n \in {254, 255}, b \in ByteSample}
        \cup {Ramp(255)}

\* no frame was handed to the transport yet
noFrame == [deviceId |-> 0, mode |-> 0, payload |-> <<>>, bytes |-> <<>>,
            pos |-> 0, val |-> 0]

idleDec == /\ wire = <<>> /\ dstate = "WAIT_DEVICE" /\ deviceId = 0
           /\ lengthByte = 0 /\ mode = 0 /\ payload = <<>> /\ derr = <<>>
           /\ sent = noFrame
idleSec == /\ secState = "LOCKED" /\ seedHi = 0 /\ seedLo = 0
           /\ reply = <<>> /\ invoked = "none"
idleFn  == fn = "none" /\ arg = <<>> /\ ret = -1 /\ pc = "done"
idleCon == conn = 1 /\ unlockedIn = 0 /\ unlockUses = 0 /\ flashOp = "idle"
idleApp == /\ fan_on = 0 /\ temp_raw = 0 /\ limiter_active = 0 /\ flags = 0
           /\ rpm = 0
idleRsp == /\ sci = <<>> /\ rpc = "off" /\ fan_state = 0 /\ portb = 0
           /\ txd = <<>>

InitChecksum ==
    /\ fn = "aldl_checksum" /\ arg \in ChecksumInputs /\ ret = -1 /\ pc = "call"
    /\ idleDec /\ idleSec /\ idleCon /\ idleRsp /\ idleApp

CallChecksum ==
    /\ pc = "call" /\ fn = "aldl_checksum"
    /\ ret' = aldl_checksum(arg, Len(arg))
    /\ pc' = "done"
    /\ UNCHANGED <<fn, arg, decVars, secVars, conVars, rspVars, appVars>>

SpecChecksum == InitChecksum /\ [][CallChecksum]_vars

InitKey ==
    /\ fn = "calculate_security_key" /\ arg \in Byte \X Byte /\ ret = -1 /\ pc = "call"
    /\ idleDec /\ idleSec /\ idleCon /\ idleRsp /\ idleApp

CallKey ==
    /\ pc = "call" /\ fn = "calculate_security_key"
    /\ ret' = calculate_security_key(arg[1], arg[2])
    /\ pc' = "done"
    /\ UNCHANGED <<fn, arg, decVars, secVars, conVars, rspVars, appVars>>

SpecKey == InitKey /\ [][CallKey]_vars

(***************************************************************************)
(* Frame codec. No C source of it is in the tree: modelled from the design *)
(* document (sections 3, 4.2 and 6), over the constants of                 *)
(* aldl_protocol.h.                                                        *)
(*   [DeviceID:1][LengthByte:1][Mode:1][Payload:0..N][Checksum:1]          *)
(***************************************************************************)
KnownDeviceIds ==
    {DEVICE_PCM, DEVICE_PCM_VY_V6, DEVICE_BCM, DEVICE_IPC, DEVICE_ABS}

\* the longest payload a one-byte length field can announce
MaxPayloadLen == 255 - ALDL_LENGTH_OFFSET - 1

\* LengthByte = 85 + 1 + len(Payload), stored in one byte
lengthByteOf(p) == U8(ALDL_LENGTH_OFFSET + 1 + Len(p))

\* the bytes the checksum covers
frameBody(d, l, m, p) == <<d, l, m>> \o p

frameChecksum(d, l, m, p) ==
    aldl_checksum(frameBody(d, l, m, p), U8(3 + Len(p)))

\* encode: the five-part byte sequence of {deviceId, mode, payload}
encode(d, m, p) ==
    frameBody(d, lengthByteOf(p), m, p) \o <<frameChecksum(d, lengthByteOf(p), m, p)>>

\* a variant that takes the length byte as the payload count plus 85
payloadCount_nomode(l) == l - ALDL_LENGTH_OFFSET

\* n = lengthByte - 85 - 1, the number of payload bytes announced
payloadCount(l) == l - ALDL_LENGTH_OFFSET - 1

discardFrame ==
    /\ deviceId' = 0 /\ lengthByte' = 0 /\ mode' = 0 /\ payload' = <<>>

\* a variant that lets the listener run during a mode-5/6 operation
listening_always == TRUE

\* the codec and the dispatcher are one synchronous thread: while a mode-5/6
\* handler runs, no byte is read and no frame is dispatched
listening == flashOp = "idle"

\* WAIT_DEVICE: a byte that is no known device id is ignored
RxDevice ==
    /\ listening /\ wire # <<>> /\ dstate = "WAIT_DEVICE"
    /\ wire' = Tail(wire)
    /\ IF Head(wire) \in KnownDeviceIds
       THEN /\ dstate' = "WAIT_LENGTH"
            /\ deviceId' = Head(wire)
            /\ lengthByte' = 0 /\ mode' = 0 /\ payload' = <<>>
       ELSE UNCHANGED <<dstate, deviceId, lengthByte, mode, payload>>
    /\ UNCHANGED <<derr, sent, fnVars, secVars, conVars, rspVars, appVars>>

\* WAIT_LENGTH: n < 0 fails with InvalidLength and resets to WAIT_DEVICE
RxLength ==
    /\ listening /\ wire # <<>> /\ dstate = "WAIT_LENGTH"
    /\ wire' = Tail(wire)
    /\ IF payloadCount(Head(wire)) < 0
       THEN /\ derr' = Append(derr, "InvalidLength")
            /\ dstate' = "WAIT_DEVICE"
            /\ discardFrame
       ELSE /\ lengthByte' = Head(wire)
            /\ dstate' = "WAIT_MODE"
            /\ UNCHANGED <<derr, deviceId, mode, payload>>
    /\ UNCHANGED <<sent, fnVars, secVars, conVars, rspVars, appVars>>

RxMode ==
    /\ listening /\ wire # <<>> /\ dstate = "WAIT_MODE"
    /\ wire' = Tail(wire)
    /\ mode' = Head(wire)
    /\ dstate' = IF payloadCount(lengthByte) = 0 THEN "WAIT_CHECKSUM" ELSE "WAIT_PAYLOAD"
    /\ UNCHANGED <<deviceId, lengthByte, payload, derr, sent, fnVars, secVars, conVars, rspVars, appVars>>

\* WAIT_PAYLOAD(n): collect n bytes
RxPayload ==
    /\ listening /\ wire # <<>> /\ dstate = "WAIT_PAYLOAD"
    /\ wire' = Tail(wire)
    /\ payload' = Append(payload, Head(wire))
    /\ dstate' = IF Len(payload) + 1 = payloadCount(lengthByte)
                 THEN "WAIT_CHECKSUM" ELSE "WAIT_PAYLOAD"
    /\ UNCHANGED <<deviceId, lengthByte, mode, derr, sent, fnVars, secVars, conVars, rspVars, appVars>>

\* WAIT_CHECKSUM: compare with checksum(deviceId, lengthByte, mode, payload);
\* a mismatch fails with ChecksumMismatch, the frame is discarded, the state
\* resets
RxChecksum ==
    /\ listening /\ wire # <<>> /\ dstate = "WAIT_CHECKSUM"
    /\ wire' = Tail(wire)
    /\ IF Head(wire) = frameChecksum(deviceId, lengthByte, mode, payload)
       THEN /\ dstate' = "DONE"
            /\ UNCHANGED <<deviceId, lengthByte, mode, payload, derr>>
       ELSE /\ derr' = Append(derr, "ChecksumMismatch")
            /\ dstate' = "WAIT_DEVICE"
            /\ discardFrame
    /\ UNCHANGED <<sent, fnVars, secVars, conVars, rspVars, appVars>>

Decode == RxDevice \/ RxLength \/ RxMode \/ RxPayload \/ RxChecksum

(***************************************************************************)
(* Codec on its own: one frame is encoded, put on the transport (as is, or *)
(* with one byte changed on the way) and fed to the decoder.               *)
(***************************************************************************)
\* longest payload of the frames that are corrupted
MaxCorruptLen == 2

ModeSample    == {0, 4, 13, 247, 255}
PayloadBytes  == {0, 166, 247}
LongLens      == {MaxPayloadLen - 1, MaxPayloadLen, MaxPayloadLen + 1, 250}
CorruptModes  == {4, 13, 247}
CorruptValues == {0, 85, 86, 87, 90, 166, 244, 255}

\* the device ids that address frames on the bus
BusDeviceIds  == {244, 247, 241, 240, 249}

CodecPayloads ==
    SeqsUpTo(PayloadBytes, MaxShort) \cup {Fill(n, b) : n \in LongLens, b \in {0, 255}}

InitCodec ==
    /\ \/ \E d \in BusDeviceIds, m \in ModeSample, p \in CodecPayloads :
            sent = [deviceId |-> d, mode |-> m, payload |-> p, bytes |-> <<>>,
                    pos |-> 0, val |-> 0]
       \/ \E d \in BusDeviceIds, m \in Byte :
            sent = [deviceId |-> d, mode |-> m, payload |-> <<>>, bytes |-> <<>>,
                    pos |-> 0, val |-> 0]
       \/ \E d \in BusDeviceIds, m \in CorruptModes,
             p \in SeqsUpTo(PayloadBytes, MaxCorruptLen) :
            \E i \in 1..(Len(p) + 4), v \in CorruptValues :
                sent = [deviceId |-> d, mode |-> m, payload |-> p, bytes |-> <<>>,
                        pos |-> i, val |-> v]
    /\ wire = <<>> /\ dstate = "WAIT_DEVICE" /\ deviceId = 0
    /\ lengthByte = 0 /\ mode = 0 /\ payload = <<>> /\ derr = <<>>
    /\ idleFn /\ idleSec /\ idleCon /\ idleRsp /\ idleApp

\* the encoder emits the frame; the transport delivers it, with byte pos
\* replaced by val when a corruption was chosen
Transmit ==
    /\ sent.bytes = <<>>
    /\ LET bytes == encode(sent.deviceId, sent.mode, sent.payload)
       IN  /\ sent.pos # 0 => bytes[sent.pos] # sent.val
           /\ sent' = [sent EXCEPT !.bytes = bytes]
           /\ wire' = IF sent.pos = 0 THEN bytes
                      ELSE [bytes EXCEPT ![sent.pos] = sent.val]
    /\ UNCHANGED <<dstate, deviceId, lengthByte, mode, payload, derr, fnVars, secVars, conVars, rspVars, appVars>>

NextCodec == Transmit \/ RxDevice \/ RxLength \/ RxMode \/ RxPayload \/ RxChecksum

SpecCodec == InitCodec /\ [][NextCodec]_vars

(***************************************************************************)
(* C1: for every byte sequence of length 0..255, aldl_checksum returns     *)
(* (256 - (sum of the bytes mod 256)) mod 256; the result is a byte, it is *)
(* 0 when the sum is a multiple of 256, and the 16-bit accumulator holds   *)
(* the exact sum (it never wraps).                                         *)
(***************************************************************************)
C1_ChecksumValue ==
    (pc = "done" /\ fn = "aldl_checksum") =>
        /\ Len(arg) <= 255
        /\ ret = (256 - (SumSeq(arg) % 256)) % 256
        /\ ret \in Byte
        /\ (SumSeq(arg) % 256 = 0 => ret = 0)
        /\ aldl_checksum_loop(arg, Len(arg), <<0, 0>>) = SumSeq(arg)

\* the largest input: 255 bytes of 0xFF, accumulator at 65025
C1_Witness ==
    /\ pc = "done" /\ fn = "aldl_checksum"
    /\ Len(arg) = 255 /\ SumSeq(arg) = 255 * 255 /\ ret = 255

(***************************************************************************)
(* C2: for every seedHi, seedLo in 0..255 the key is                       *)
(* (37709 - (seedLo*256 + seedHi)) mod 65536, seedLo being the high byte;  *)
(* the key of (0,0) is 37709 and the key of the combined seed 40000 is     *)
(* 63245.                                                                  *)
(***************************************************************************)
C2_KeyValue ==
    (pc = "done" /\ fn = "calculate_security_key") =>
        /\ ret = (37709 - (arg[2] * 256 + arg[1])) % 65536
        /\ (arg = <<0, 0>> => ret = 37709)
        /\ (arg[2] * 256 + arg[1] = 40000 => ret = 63245)

C2_Witness ==
    /\ pc = "done" /\ fn = "calculate_security_key"
    /\ arg = <<64, 156>> /\ ret = 63245

(***************************************************************************)
(* examples/mode4_responder.c, handle_mode4: the actuator callback and the *)
(* reply it sends                                                          *)
(***************************************************************************)
\* if ((control & 0x01) != 0) fan_state = 1; else fan_state = 0;
mode4Status(ctl) == ctl % 2

\* sci_tx(target); sci_tx(0x56); sci_tx(0x04); sci_tx(fan_state);
mode4Reply(d, ctl) ==
    [deviceId |-> d, lengthByte |-> ALDL_SIMPLE_LENGTH, mode |-> MODE_4,
     payload |-> <<mode4Status(ctl)>>]

(***************************************************************************)
(* Mode dispatcher and security handshake. No C source of them is in the   *)
(* tree: modelled from the design document (sections 4.3 and 4.4), over    *)
(* the constants and calculate_security_key of aldl_protocol.h.            *)
(*                                                                         *)
(* The mode-13 sub-requests are told apart by the length byte, as section  *)
(* 4.4 gives them: 0x57 a seed request with payload <<submode>>, 0x58 a    *)
(* key submission with payload <<keyHi, keyLo>>.                           *)
(***************************************************************************)
noReply == <<>>

\* a reply frame re-encoded by the codec
replyFrame(d, m, p) ==
    [deviceId |-> d, lengthByte |-> lengthByteOf(p), mode |-> m, payload |-> p]

\* seed response: header 0x59, payload [submode, seedHi, seedLo]
seedReply(d, sub, hi, lo) ==
    [deviceId |-> d, lengthByte |-> ALDL_SEED_RESP_LENGTH, mode |-> MODE_13,
     payload |-> <<sub, hi, lo>>]

\* key accept/reject: header 0x58, result byte at frame index 4
keyReply(d, sub, result) ==
    [deviceId |-> d, lengthByte |-> ALDL_KEY_RESP_HEADER, mode |-> MODE_13,
     payload |-> <<sub, result>>]

\* mode-6 requests counted under one unlock: 0, 1, ..., MaxUses or more
MaxUses == 2

\* RAM address the mode-6 upload is written to and run from
KERNEL_RAM_ADDR == 768

\* modes 5 and 6 require SecuritySession.state == UNLOCKED
flashAuthorized(state) == state = "UNLOCKED"

\* the 16-bit key of a key submission
submittedKey(p) == p[1] * 256 + p[2]

\* the frame is consumed once; the decoder listens for the next one
consumeFrame ==
    /\ dstate' = "WAIT_DEVICE"
    /\ discardFrame

\* mode 1: the payload goes to the external telemetry decoder
DispatchMode1 ==
    /\ listening /\ dstate = "DONE" /\ mode = MODE_1
    /\ invoked' = "mode1"
    /\ reply' = noReply
    /\ consumeFrame
    /\ UNCHANGED <<wire, derr, sent, secState, seedHi, seedLo, fnVars, conVars, rspVars, appVars>>

\* mode 4: the output-control callback gets the control byte
DispatchMode4 ==
    /\ listening /\ dstate = "DONE" /\ mode = MODE_4 /\ payload # <<>>
    /\ invoked' = "mode4"
    /\ reply' = mode4Reply(deviceId, payload[1])
    /\ consumeFrame
    /\ UNCHANGED <<wire, derr, sent, secState, seedHi, seedLo, fnVars, conVars, rspVars, appVars>>

\* modes 5 and 6: gated by the security session
DispatchFlash ==
    /\ listening /\ dstate = "DONE" /\ mode \in {MODE_5, MODE_6}
    /\ IF flashAuthorized(secState)
       THEN /\ invoked' = (IF mode = MODE_5 THEN "mode5" ELSE "mode6")
            /\ reply' = noReply
            /\ flashOp' = invoked'
            /\ unlockUses' = IF mode = MODE_6 THEN Min(unlockUses + 1, MaxUses)
                              ELSE unlockUses
       ELSE /\ invoked' = "none"
            /\ reply' = replyFrame(deviceId, mode, <<RESPONSE_REJECTED>>)
            /\ UNCHANGED <<flashOp, unlockUses>>
    /\ consumeFrame
    /\ UNCHANGED <<wire, derr, sent, secState, seedHi, seedLo, conn, unlockedIn,
                   fnVars, rspVars, appVars>>

\* the uploaded routine, at KERNEL_RAM_ADDR, has run to its end: the handler
\* returns
FlashDone ==
    /\ flashOp # "idle"
    /\ flashOp' = "idle"
    /\ UNCHANGED <<conn, unlockedIn, unlockUses, fnVars, decVars, secVars, rspVars, appVars>>

SeedSample == {<<0, 0>>, <<64, 156>>, <<18, 52>>, <<255, 255>>}

\* a variant that issues a seed in every state
seedRequestAllowed_any(state) == TRUE

\* UNLOCKED is terminal for the connection: no new seed is issued in it
seedRequestAllowed(state) == state # "UNLOCKED"

\* mode 13, seed request
DispatchSeedRequest ==
    /\ listening /\ dstate = "DONE" /\ mode = MODE_13 /\ lengthByte = ALDL_SEED_REQ_LENGTH
    /\ IF ~seedRequestAllowed(secState)
       THEN /\ reply' = keyReply(deviceId, payload[1], RESPONSE_REJECTED)
            /\ UNCHANGED <<secState, seedHi, seedLo>>
       ELSE \E seed \in SeedSample :
                /\ secState' = "SEED_ISSUED"
                /\ seedHi' = seed[1]
                /\ seedLo' = seed[2]
                /\ reply' = seedReply(deviceId, payload[1], seed[1], seed[2])
    /\ invoked' = "security"
    /\ consumeFrame
    /\ UNCHANGED <<wire, derr, sent, fnVars, conVars, rspVars, appVars>>

\* mode 13, key submission
DispatchKey ==
    /\ listening /\ dstate = "DONE" /\ mode = MODE_13 /\ lengthByte = ALDL_KEY_RESP_HEADER
    /\ IF secState = "SEED_ISSUED"
       THEN IF submittedKey(payload) = calculate_security_key(seedHi, seedLo)
            THEN /\ secState' = "UNLOCKED"
                 /\ reply' = keyReply(deviceId, payload[1], RESPONSE_OK)
                 /\ unlockedIn' = conn
                 /\ unlockUses' = 0
            ELSE /\ secState' = "LOCKED"
                 /\ reply' = keyReply(deviceId, payload[1], RESPONSE_REJECTED)
                 /\ UNCHANGED <<unlockedIn, unlockUses>>
       ELSE /\ reply' = keyReply(deviceId, payload[1], RESPONSE_REJECTED)
            /\ UNCHANGED <<secState, unlockedIn, unlockUses>>
    /\ invoked' = "security"
    /\ consumeFrame
    /\ UNCHANGED <<wire, derr, sent, seedHi, seedLo, conn, flashOp, fnVars, rspVars, appVars>>

\* any other mode, a mode-13 frame that is neither sub-request, and a
\* mode-4 frame that carries no control byte
DispatchUnknown ==
    /\ listening /\ dstate = "DONE"
    /\ \/ mode \notin {MODE_1, MODE_4, MODE_5, MODE_6, MODE_13}
       \/ mode = MODE_4 /\ payload = <<>>
       \/ /\ mode = MODE_13
          /\ lengthByte \notin {ALDL_SEED_REQ_LENGTH, ALDL_KEY_RESP_HEADER}
    /\ invoked' = "none"
    /\ reply' = replyFrame(deviceId, mode, <<RESPONSE_FAIL>>)
    /\ consumeFrame
    /\ UNCHANGED <<wire, derr, sent, secState, seedHi, seedLo, fnVars, conVars, rspVars, appVars>>

Dispatch ==
    \/ DispatchMode1 \/ DispatchMode4 \/ DispatchFlash
    \/ DispatchSeedRequest \/ DispatchKey \/ DispatchUnknown

(***************************************************************************)
(* The scan tool: one request/response exchange at a time                  *)
(***************************************************************************)
RequestIds == {DEVICE_PCM_VY_V6, DEVICE_PCM}

\* the key the tool derives from the seed it was sent, and some wrong ones
toolKey(hi, lo) == (37709 - (lo * 256 + hi)) % 65536
keyBytes(k)     == <<k \div 256, k % 256>>
KeyPayloads(hi, lo) ==
    { keyBytes(toolKey(hi, lo)), keyBytes((toolKey(hi, lo) + 1) % 65536),
      keyBytes(toolKey(lo, hi)), <<hi, lo>> }

Requests(hi, lo) ==
    {<<MODE_1, <<>> >>, <<MODE_4, <<0>> >>, <<MODE_4, <<1>> >>, <<MODE_4, <<255>> >>,
     <<MODE_5, <<>> >>, <<MODE_6, <<72>> >>, <<11, <<>> >>, <<2, <<7>> >>,
     <<MODE_13, <<1>> >>, <<MODE_13, <<>> >>}
        \cup {<<MODE_13, k>> : k \in KeyPayloads(hi, lo)}

Init ==
    /\ wire = <<>> /\ dstate = "WAIT_DEVICE" /\ deviceId = 0
    /\ lengthByte = 0 /\ mode = 0 /\ payload = <<>> /\ derr = <<>>
    /\ sent = noFrame
    /\ secState = "LOCKED" /\ seedHi = 0 /\ seedLo = 0
    /\ reply = noReply /\ invoked = "none"
    /\ idleFn /\ idleCon /\ idleRsp /\ idleApp

\* the tool sends a request once the previous exchange is over
Send ==
    /\ wire = <<>> /\ dstate = "WAIT_DEVICE"
    /\ \E d \in RequestIds, r \in Requests(seedHi, seedLo) :
          LET bytes == encode(d, r[1], r[2])
          IN  /\ sent' = [deviceId |-> d, mode |-> r[1], payload |-> r[2],
                          bytes |-> bytes, pos |-> 0, val |-> 0]
              /\ wire' = bytes
    /\ derr' = <<>>
    /\ reply' = noReply
    /\ invoked' = "none"
    /\ UNCHANGED <<dstate, deviceId, lengthByte, mode, payload,
                   secState, seedHi, seedLo, fnVars, conVars, rspVars, appVars>>

\* connections followed, counted from 1
MaxConn == 2

\* a variant that carries the session state over into the next connection
sessionAtStart_kept == secState

\* a SecuritySession is created LOCKED
sessionAtStart == "LOCKED"

\* the session of the connection is destroyed and the next connection gets
\* a new one; a decode in progress is cancelled, what is left on the
\* transport is lost
endConnection ==
    /\ conn < MaxConn
    /\ conn' = conn + 1
    /\ secState' = sessionAtStart /\ seedHi' = 0 /\ seedLo' = 0
    /\ wire' = <<>> /\ dstate' = "WAIT_DEVICE" /\ discardFrame
    /\ reply' = noReply /\ invoked' = "none"
    /\ UNCHANGED <<derr, sent, unlockedIn, unlockUses, fnVars, rspVars, appVars>>

\* bus reset: the PCM restarts, a running mode-5/6 operation ends with it
BusReset ==
    /\ endConnection
    /\ flashOp' = "idle"

\* the tool disconnects
Disconnect ==
    /\ endConnection
    /\ UNCHANGED flashOp

\* nothing was received for the configured time
IdleTimeout ==
    /\ wire = <<>> /\ dstate = "WAIT_DEVICE" /\ flashOp = "idle"
    /\ endConnection
    /\ UNCHANGED flashOp

Next ==
    \/ Send
    \/ RxDevice \/ RxLength \/ RxMode \/ RxPayload \/ RxChecksum
    \/ DispatchMode1 \/ DispatchMode4 \/ DispatchFlash \/ FlashDone
    \/ DispatchSeedRequest \/ DispatchKey \/ DispatchUnknown
    \/ BusReset \/ Disconnect \/ IdleTimeout

Spec == Init /\ [][Next]_vars

(***************************************************************************)
(* examples/mode4_responder.c: main and handle_mode4, a listener patched   *)
(* into the PCM. It polls the SCI receive register byte by byte; sci_rx    *)
(* blocks until a byte is there, so each read is one step.                 *)
(***************************************************************************)
\* *portb | 0x01  and  *portb & 0xFE
\* a variant that stores 0x01 instead of OR-ing it into the port
setBit0_store(p) == 1
setBit0(p)   == p - (p % 2) + 1
clearBit0(p) == p - (p % 2)

\* a variant of the test in main that lets the PCM id 0xF4 start a frame too
isTarget_anyPcm(b) == b \in {DEVICE_PCM_VY_V6, DEVICE_PCM}

\* if (target == 0xF7)
isTarget(b) == b = 247

\* target = sci_rx(); if (target == 0xF7) { ... }
main_rx_target ==
    /\ rpc = "rx_target" /\ sci # <<>>
    /\ sci' = Tail(sci)
    /\ rpc' = IF isTarget(Head(sci)) THEN "rx_length" ELSE "rx_target"
    /\ UNCHANGED <<fan_state, portb, txd,
                   fnVars, decVars, secVars, conVars, appVars>>

\* sci_rx();   the length byte is skipped
main_skip_length ==
    /\ rpc = "rx_length" /\ sci # <<>>
    /\ sci' = Tail(sci)
    /\ rpc' = "rx_mode"
    /\ UNCHANGED <<fan_state, portb, txd,
                   fnVars, decVars, secVars, conVars, appVars>>

\* mode = sci_rx(); if (mode == 0x04) handle_mode4();
main_rx_mode ==
    /\ rpc = "rx_mode" /\ sci # <<>>
    /\ sci' = Tail(sci)
    /\ rpc' = IF Head(sci) = 4 THEN "rx_control" ELSE "rx_target"
    /\ UNCHANGED <<fan_state, portb, txd,
                   fnVars, decVars, secVars, conVars, appVars>>

\* handle_mode4: control = sci_rx(); PORTB bit 0 follows bit 0 of control;
\* then sci_tx(0xF7); sci_tx(0x56); sci_tx(0x04); sci_tx(fan_state);
\* and back to the top of the loop in main
handle_mode4 ==
    /\ rpc = "rx_control" /\ sci # <<>>
    /\ sci' = Tail(sci)
    /\ IF Head(sci) % 2 # 0
       THEN portb' = setBit0(portb) /\ fan_state' = 1
       ELSE portb' = clearBit0(portb) /\ fan_state' = 0
    /\ txd' = txd \o <<247, 86, 4, fan_state'>>
    /\ rpc' = "rx_target"
    /\ UNCHANGED <<fnVars, decVars, secVars, conVars, appVars>>

(***************************************************************************)
(* The responder on the bus. Every byte of the bus reaches every listener: *)
(* the frame decoder takes it from wire, the responder from its SCI        *)
(* receive register. The scan tool sends one frame per exchange, intact or *)
(* with one byte changed on the way.                                       *)
(***************************************************************************)
PortSample == {0, 129}

BusFrames ==
    {<<MODE_4, <<0>> >>, <<MODE_4, <<1>> >>, <<MODE_4, <<254>> >>, <<MODE_4, <<>> >>,
     <<MODE_4, <<1, 0>> >>, <<MODE_1, <<>> >>, <<MODE_1, <<247>> >>, <<11, <<4>> >>}

BusIds       == {247, 244, 16}
BusCorruptTo == {0, 85, 247}

InitResponder ==
    /\ wire = <<>> /\ dstate = "WAIT_DEVICE" /\ deviceId = 0
    /\ lengthByte = 0 /\ mode = 0 /\ payload = <<>> /\ derr = <<>>
    /\ sent = noFrame
    /\ idleSec /\ idleFn /\ idleCon /\ idleApp
    /\ sci = <<>> /\ rpc = "rx_target" /\ fan_state = 0
    /\ portb \in PortSample /\ txd = <<>>

\* the tool sends a frame once the previous exchange is over
BusSend ==
    /\ wire = <<>> /\ sci = <<>> /\ dstate = "WAIT_DEVICE"
    /\ \E d \in BusIds, r \in BusFrames :
          LET bytes == encode(d, r[1], r[2])
          IN  \E i \in 0..Len(bytes), v \in BusCorruptTo :
                /\ i = 0 => v = 0
                /\ i # 0 => (d = 247 /\ bytes[i] # v)
                /\ sent' = [deviceId |-> d, mode |-> r[1], payload |-> r[2],
                            bytes |-> bytes, pos |-> i, val |-> v]
                /\ wire' = IF i = 0 THEN bytes ELSE [bytes EXCEPT ![i] = v]
                /\ sci' = wire'
    /\ derr' = <<>>
    /\ reply' = noReply
    /\ invoked' = "none"
    /\ txd' = <<>>
    /\ UNCHANGED <<dstate, deviceId, lengthByte, mode, payload,
                   secState, seedHi, seedLo, fnVars, conVars,
                   rpc, fan_state, portb, appVars>>

NextResponder ==
    \/ BusSend
    \/ RxDevice \/ RxLength \/ RxMode \/ RxPayload \/ RxChecksum
    \/ DispatchMode1 \/ DispatchMode4 \/ DispatchUnknown
    \/ main_rx_target \/ main_skip_length \/ main_rx_mode \/ handle_mode4

SpecResponder == InitResponder /\ [][NextResponder]_vars

(***************************************************************************)
(* Flash memory layout (aldl_protocol.h:88-105) and the address            *)
(* translation over it. The translating function has no C source in the   *)
(* tree: its shape (shared region below $8000, banked window above,        *)
(* BankOutOfRange) is modelled from the design document, section 4.5; the  *)
(* placement of the banks in the image is the header's.                    *)
(***************************************************************************)
BANK_1_ID == 72
BANK_2_ID == 88
\* a variant with bit 3 set as in BANK_1_ID and BANK_2_ID
BANK_3_ID_bit3 == BANK_2_ID + 8
BANK_3_ID == 80

\* file offsets of bank 1: $0000-$FFFF, its code at 0x8000..0xFFFF
BANK1_CODE_START == 32768
BANK1_CODE_END   == 65535
\* CPU address where the bank-2 and bank-3 overlays start
BANK2_START == 32768
BANK3_START == 32768
\* "(file: 0x10000)" and "(file: 0x18000)"
BANK2_FILE_BASE == 65536
BANK3_FILE_BASE == 98304

BankIds == {BANK_1_ID, BANK_2_ID, BANK_3_ID}

\* a variant with the bases of banks 2 and 3 exchanged
bankFileBase_swapped(bank) ==
    CASE bank = BANK_1_ID -> BANK1_CODE_START
      [] bank = BANK_2_ID -> BANK3_FILE_BASE
      [] bank = BANK_3_ID -> BANK2_FILE_BASE

\* a variant that puts the overlay of bank 1 at file offset 0
bankFileBase_bank1At0(bank) ==
    CASE bank = BANK_1_ID -> 0
      [] bank = BANK_2_ID -> BANK2_FILE_BASE
      [] bank = BANK_3_ID -> BANK3_FILE_BASE

\* file offset of the byte the CPU sees at $8000 with the bank paged in
bankFileBase(bank) ==
    CASE bank = BANK_1_ID -> BANK1_CODE_START
      [] bank = BANK_2_ID -> BANK2_FILE_BASE
      [] bank = BANK_3_ID -> BANK3_FILE_BASE

translate(bank, cpuAddr) ==
    IF bank \notin BankIds
    THEN [err |-> "BankOutOfRange"]
    ELSE IF cpuAddr < BANK2_START
         THEN [err |-> "none", offset |-> cpuAddr]
         ELSE [err |-> "none", offset |-> bankFileBase(bank) + (cpuAddr - BANK2_START)]

\* every AddrStride-th CPU address is translated, and the boundaries
AddrStride == 251

BankSample == BankIds \cup {0, 73, 96, 255}
AddrSample ==
    {a \in 0..65535 : a % AddrStride = 0}
        \cup {256, 16384, 23808, 32767, 32768, 32773, 65472, 65535}

InitTranslate ==
    /\ fn = "translate" /\ arg \in BankSample \X AddrSample /\ ret = -1 /\ pc = "call"
    /\ idleDec /\ idleSec /\ idleCon /\ idleRsp /\ idleApp

CallTranslate ==
    /\ pc = "call" /\ fn = "translate"
    /\ ret' = translate(arg[1], arg[2])
    /\ pc' = "done"
    /\ UNCHANGED <<fn, arg, decVars, secVars, conVars, rspVars, appVars>>

SpecTranslate == InitTranslate /\ [][CallTranslate]_vars

(***************************************************************************)
(* Patch-window guard. The window is PATCH_AREA_START and PATCH_AREA_SIZE  *)
(* of aldl_protocol.h:108-109; the guard itself has no C source in the     *)
(* tree and is modelled from the design document, sections 4.5 and 7: a    *)
(* write outside the window fails with PatchOverflow and writes nothing.   *)
(***************************************************************************)
PATCH_AREA_START == 23808
\* a variant that takes the area for a full kilobyte
PATCH_AREA_SIZE_kb == 4 * 256
PATCH_AREA_SIZE  == 768

\* first address after the window
patchAreaEnd == PATCH_AREA_START + PATCH_AREA_SIZE

\* the write of len bytes at cpuAddr starts in the window and stays in it
inPatchArea(cpuAddr, len) ==
    /\ cpuAddr >= PATCH_AREA_START
    /\ cpuAddr < patchAreaEnd
    /\ cpuAddr + len <= patchAreaEnd

\* the addresses written, or the refusal
patchWrite(cpuAddr, len) ==
    IF inPatchArea(cpuAddr, len)
    THEN [err |-> "none", written |-> cpuAddr..(cpuAddr + len - 1)]
    ELSE [err |-> "PatchOverflow", written |-> {}]

\* every PatchStride-th start address around the window, and the edges
PatchStride == 61

PatchAddrSample ==
    {a \in 23600..24800 : a % PatchStride = 0}
        \cup {0, 768, 23807, 23808, 23809, 24575, 24576, 24577, 32768, 65535}
PatchLenSample == {0, 1, 2, 255, 767, 768, 769, 4096}

InitPatch ==
    /\ fn = "patchWrite" /\ arg \in PatchAddrSample \X PatchLenSample
    /\ ret = -1 /\ pc = "call"
    /\ idleDec /\ idleSec /\ idleCon /\ idleRsp /\ idleApp

CallPatch ==
    /\ pc = "call" /\ fn = "patchWrite"
    /\ ret' = patchWrite(arg[1], arg[2])
    /\ pc' = "done"
    /\ UNCHANGED <<fn, arg, decVars, secVars, conVars, rspVars, appVars>>

SpecPatch == InitPatch /\ [][CallPatch]_vars

(***************************************************************************)
(* Observations on the codec run                                           *)
(***************************************************************************)
Transmitted  == sent.bytes # <<>>
Intact       == Transmitted /\ sent.pos = 0
Corrupted    == Transmitted /\ sent.pos # 0
AllConsumed  == Transmitted /\ wire = <<>>
Reported(e)  == \E i \in 1..Len(derr) : derr[i] = e
DecodedAsSent ==
    /\ dstate = "DONE"
    /\ deviceId = sent.deviceId /\ mode = sent.mode /\ payload = sent.payload

(***************************************************************************)
(* C3 as stated: for every known deviceId, every mode and every payload of *)
(* length 0..250, the decoder fed encode(deviceId, mode, payload) from     *)
(* WAIT_DEVICE ends in DONE with exactly (deviceId, mode, payload).        *)
(***************************************************************************)
C3_RoundTrip250 ==
    (Intact /\ AllConsumed /\ Len(sent.payload) <= 250) => DecodedAsSent

(***************************************************************************)
(* C3 amended: the round trip holds for payloads of length 0..169, the     *)
(* longest a one-byte length field with offset 85 + 1 can announce; no     *)
(* error is reported on the way.                                           *)
(***************************************************************************)
C3_RoundTrip ==
    (Intact /\ AllConsumed /\ Len(sent.payload) <= MaxPayloadLen) =>
        DecodedAsSent /\ derr = <<>>

C3_Witness ==
    /\ Intact /\ AllConsumed /\ DecodedAsSent
    /\ Len(sent.payload) = MaxPayloadLen /\ lengthByte = 255

(***************************************************************************)
(* C9: for every frame produced by encode, the checksum recomputed over    *)
(* all bytes but the last equals the last byte, and the bytes of the frame *)
(* sum to 0 mod 256.                                                       *)
(***************************************************************************)
\* the frame as emitted, before the decoder has taken a byte of it
Emitted == Transmitted /\ Len(wire) = Len(sent.bytes)

C9_ChecksumSelfConsistent ==
    Emitted =>
        LET b == sent.bytes
            n == Len(b)
        IN  /\ n = Len(sent.payload) + 4
            /\ aldl_checksum(SubSeq(b, 1, n - 1), U8(n - 1)) = b[n]
            /\ SumSeq(b) % 256 = 0
            /\ \A i \in 1..n : b[i] \in Byte

C9_Witness ==
    /\ Emitted /\ Len(sent.payload) = MaxPayloadLen
    /\ sent.bytes[Len(sent.bytes)] # 0

(***************************************************************************)
(* C10 as stated: every change of exactly one byte of a valid frame        *)
(* (device id, length, mode, payload or checksum), other than an exact     *)
(* checksum collision (the changed bytes are accepted as a frame), makes   *)
(* the decoder report ChecksumMismatch.                                    *)
(***************************************************************************)
C10_AnyByte ==
    (Corrupted /\ (wire = <<>> \/ dstate = "DONE")) =>
        (Reported("ChecksumMismatch") \/ dstate = "DONE")

(***************************************************************************)
(* C10 amended: ChecksumMismatch is reported for every change of a mode,   *)
(* payload or checksum byte, of the device id to another known device id,  *)
(* and (other than an exact checksum collision) of the length byte to a    *)
(* smaller value that is still at least 86. Outside the length byte the   *)
(* changed frame is never accepted.                                        *)
(***************************************************************************)
C10_Covered ==
    /\ Corrupted
    /\ sent.pos = 1 => sent.val \in BusDeviceIds
    /\ sent.pos = 2 => (payloadCount(sent.val) >= 0 /\ sent.val < sent.bytes[2])

C10_Mismatch ==
    C10_Covered =>
        /\ sent.pos # 2 => dstate # "DONE"
        /\ (wire = <<>> \/ dstate = "DONE") =>
              (Reported("ChecksumMismatch") \/ (sent.pos = 2 /\ dstate = "DONE"))

\* the device id of a frame changed to another known device id
C10_Witness ==
    /\ C10_Covered /\ sent.pos = 1 /\ wire = <<>>
    /\ derr = <<"ChecksumMismatch">> /\ dstate = "WAIT_DEVICE"

(***************************************************************************)
(* Observations on the dispatcher                                          *)
(***************************************************************************)
\* this step hands the decoded frame to the dispatcher (the connection does
\* not end in it)
Dispatching == dstate = "DONE" /\ dstate' # "DONE" /\ conn' = conn
session     == <<secState, seedHi, seedLo>>

(***************************************************************************)
(* C4: a mode-5 or mode-6 request is passed to its handler only when the   *)
(* session is UNLOCKED; in LOCKED or SEED_ISSUED the dispatcher replies    *)
(* with a RESPONSE_REJECTED (0xCC) frame, the handler is not invoked and   *)
(* the session is unchanged.                                               *)
(***************************************************************************)
C4_FlashGate ==
    [][ (Dispatching /\ mode \in {5, 6}) =>
          /\ invoked' \in {"mode5", "mode6"} <=> secState = "UNLOCKED"
          /\ secState # "UNLOCKED" =>
                /\ reply' # noReply
                /\ reply'.payload = <<204>>
                /\ reply'.deviceId = deviceId /\ reply'.mode = mode
                /\ invoked' = "none"
          /\ session' = session ]_vars

\* a mode-6 request was just refused while a seed is outstanding
C4_Witness ==
    /\ sent.mode = 6 /\ secState = "SEED_ISSUED" /\ invoked = "none"
    /\ reply # noReply /\ reply.mode = 6 /\ reply.payload = <<204>>

(***************************************************************************)
(* C5: on a key submission in SEED_ISSUED the session becomes UNLOCKED and *)
(* the reply carries 0xAA if and only if the submitted 16-bit key equals   *)
(* (37709 - (seedLo*256 + seedHi)) mod 65536 for the recorded seed; any    *)
(* other key returns the session to LOCKED and the reply carries 0xCC.     *)
(***************************************************************************)
C5_KeyCheck ==
    [][ (Dispatching /\ mode = 13 /\ lengthByte = 88 /\ secState = "SEED_ISSUED") =>
          LET expected == (37709 - (seedLo * 256 + seedHi)) % 65536
              given    == payload[1] * 256 + payload[2]
          IN  /\ reply' # noReply
              /\ given = expected =>
                    secState' = "UNLOCKED" /\ reply'.payload[2] = 170
              /\ given # expected =>
                    secState' = "LOCKED" /\ reply'.payload[2] = 204 ]_vars

\* unlocked with the key of the seed bytes (64, 156), combined seed 40000
C5_Witness ==
    /\ secState = "UNLOCKED" /\ seedHi = 64 /\ seedLo = 156
    /\ sent.mode = 13 /\ sent.payload = <<247, 13>>
    /\ reply # noReply /\ reply.payload[2] = 170

(***************************************************************************)
(* C6: a seed request (length byte 0x57) received in LOCKED moves the      *)
(* session to SEED_ISSUED, records a (seedHi, seedLo) pair and replies     *)
(* with length byte 0x59 and payload [submode, seedHi, seedLo] carrying    *)
(* the recorded seed bytes.                                                *)
(***************************************************************************)
C6_SeedRequest ==
    [][ (Dispatching /\ mode = 13 /\ lengthByte = 87 /\ secState = "LOCKED") =>
          /\ secState' = "SEED_ISSUED"
          /\ seedHi' \in Byte /\ seedLo' \in Byte
          /\ reply' # noReply
          /\ reply'.lengthByte = 89
          /\ reply'.mode = 13 /\ reply'.deviceId = deviceId
          /\ reply'.payload = <<payload[1], seedHi', seedLo'>> ]_vars

C6_Witness ==
    /\ secState = "SEED_ISSUED" /\ seedHi = 18 /\ seedLo = 52
    /\ reply # noReply /\ reply.lengthByte = 89 /\ reply.payload = <<1, 18, 52>>

(***************************************************************************)
(* C7 as stated: every cpuAddr below 0x8000 maps to itself for every bank, *)
(* and every cpuAddr in 0x8000..0xFFFF to base(bank) + (cpuAddr - 0x8000)  *)
(* with bases BANK1 = 0x00000, BANK2 = 0x10000, BANK3 = 0x18000.           *)
(***************************************************************************)
Translated == pc = "done" /\ fn = "translate" /\ arg[1] \in {72, 88, 80}

statedBase(bank) == CASE bank = 72 -> 0 [] bank = 88 -> 65536 [] bank = 80 -> 98304

C7_TranslateBank1At0 ==
    Translated =>
        /\ ret.err = "none"
        /\ ret.offset = IF arg[2] < 32768 THEN arg[2]
                        ELSE statedBase(arg[1]) + (arg[2] - 32768)

(***************************************************************************)
(* C7 amended: every cpuAddr below 0x8000 maps to itself for every bank,   *)
(* and every cpuAddr in 0x8000..0xFFFF to base(bank) + (cpuAddr - 0x8000)  *)
(* with bases BANK1 = 0x08000 (bank 1 lies at file offset = cpuAddr over   *)
(* $0000-$FFFF), BANK2 = 0x10000, BANK3 = 0x18000; so                      *)
(* translate(BANK2, 0x8000) = 0x10000, translate(BANK3, 0x8005) = 0x18005  *)
(* and translate(BANK1, 0x0100) = 0x0100.                                  *)
(***************************************************************************)
layoutBase(bank) == CASE bank = 72 -> 32768 [] bank = 88 -> 65536 [] bank = 80 -> 98304

C7_Translate ==
    Translated =>
        /\ ret.err = "none"
        /\ ret.offset = IF arg[2] < 32768 THEN arg[2]
                        ELSE layoutBase(arg[1]) + (arg[2] - 32768)
        /\ arg = <<88, 32768>> => ret.offset = 65536
        /\ arg = <<80, 32773>> => ret.offset = 98309
        /\ arg = <<72, 256>>   => ret.offset = 256
        /\ arg[1] = 72 => ret.offset = arg[2]

C7_Witness ==
    Translated /\ arg = <<80, 32773>> /\ ret = [err |-> "none", offset |-> 98309]

(***************************************************************************)
(* C8: every frame held or emitted by the codec and the dispatcher (the    *)
(* request on the transport, the frame decoded, the reply) satisfies       *)
(* lengthByte = 85 + 1 + len(payload) with lengthByte a single byte.       *)
(***************************************************************************)
C8_LengthInvariant ==
    /\ dstate = "DONE" =>
          lengthByte = 85 + 1 + Len(payload) /\ lengthByte \in Byte
    /\ reply # noReply =>
          reply.lengthByte = 85 + 1 + Len(reply.payload) /\ reply.lengthByte \in Byte
    /\ sent.bytes # <<>> =>
          sent.bytes[2] = 85 + 1 + Len(sent.payload)

(***************************************************************************)
(* Observations on the responder's bus                                     *)
(***************************************************************************)
FramingError == Reported("InvalidLength") \/ Reported("ChecksumMismatch")

(***************************************************************************)
(* C11: after the decoder reports InvalidLength or ChecksumMismatch for a  *)
(* frame, that frame is never handed on: the dispatcher invokes no handler *)
(* and builds no reply for it, and no actuator output or acknowledgement   *)
(* is produced for it by the listener (main and handle_mode4 of the        *)
(* responder); the step that reports the error leaves the decoder in       *)
(* WAIT_DEVICE.                                                            *)
(***************************************************************************)
C11_FaultyFrameDropped ==
    /\ FramingError => (invoked = "none" /\ reply = noReply /\ txd = <<>>)
    /\ (derr # <<>> /\ wire = <<>> /\ sent.pos = Len(sent.bytes)) =>
          dstate = "WAIT_DEVICE"

(***************************************************************************)
(* C12: a length byte below 86 received in WAIT_LENGTH (n = lengthByte -   *)
(* 85 - 1 < 0) makes the decoder report InvalidLength and leaves it in     *)
(* WAIT_DEVICE at once, with only that byte consumed; the very next byte   *)
(* on the transport is examined as a possible device id (it starts a frame *)
(* when it is a known id, it is ignored otherwise) and is not taken as     *)
(* mode, payload or checksum.                                              *)
(***************************************************************************)
JustInvalidLength ==
    /\ derr # <<>> /\ derr[Len(derr)] = "InvalidLength"
    /\ dstate = "WAIT_DEVICE" /\ deviceId = 0

C12_InvalidLength ==
    [][ /\ (dstate = "WAIT_LENGTH" /\ wire # <<>> /\ Head(wire) < 86) =>
              /\ derr' = Append(derr, "InvalidLength")
              /\ dstate' = "WAIT_DEVICE"
              /\ wire' = Tail(wire)
              /\ deviceId' = 0 /\ mode' = 0 /\ payload' = <<>>
        /\ (JustInvalidLength /\ wire # <<>>) =>
              /\ wire' = Tail(wire)
              /\ mode' = 0 /\ payload' = <<>> /\ derr' = derr
              /\ IF Head(wire) \in {244, 247, 241, 240, 249}
                 THEN dstate' = "WAIT_LENGTH" /\ deviceId' = Head(wire)
                 ELSE dstate' = "WAIT_DEVICE" /\ deviceId' = 0 ]_vars

\* the length byte of a frame was changed to 85; the byte after it, the
\* mode byte 0xF7, was then taken as the device id of a new frame
C12_Witness ==
    /\ sent.pos = 2 /\ sent.val = 85 /\ sent.mode = 247 /\ sent.deviceId = 244
    /\ derr = <<"InvalidLength">>
    /\ dstate = "WAIT_LENGTH" /\ deviceId = 247

(***************************************************************************)
(* C13: in WAIT_DEVICE a byte that is no known device id leaves the        *)
(* decoder in WAIT_DEVICE, reports no error and starts no frame; only a    *)
(* known device id starts a frame. In the mode-4 responder only the byte   *)
(* 0xF7 starts a frame: any other byte read at the top of main's loop      *)
(* leaves it there, with no output.                                        *)
(***************************************************************************)
C13_UnknownIdIgnored ==
    [][ /\ (dstate = "WAIT_DEVICE" /\ wire # <<>> /\ wire' # wire) =>
              /\ wire' = Tail(wire) /\ derr' = derr
              /\ invoked' = invoked /\ reply' = reply
              /\ IF Head(wire) \in {244, 247, 241, 240, 249}
                 THEN dstate' = "WAIT_LENGTH" /\ deviceId' = Head(wire)
                 ELSE /\ dstate' = "WAIT_DEVICE"
                      /\ deviceId' = deviceId /\ lengthByte' = lengthByte
                      /\ mode' = mode /\ payload' = payload
        /\ (rpc = "rx_target" /\ sci # <<>> /\ sci' # sci) =>
              /\ sci' = Tail(sci)
              /\ txd' = txd /\ portb' = portb /\ fan_state' = fan_state
              /\ rpc' = IF Head(sci) = 247 THEN "rx_length" ELSE "rx_target" ]_vars

\* a whole frame addressed to an unknown id (0x10) went by: both listeners
\* are where they were, nothing was reported, dispatched or transmitted
C13_Witness ==
    /\ sent.deviceId = 16 /\ sent.pos = 0 /\ sent.bytes # <<>>
    /\ wire = <<>> /\ sci = <<>>
    /\ dstate = "WAIT_DEVICE" /\ derr = <<>> /\ invoked = "none"
    /\ rpc = "rx_target" /\ txd = <<>>

(***************************************************************************)
(* C14: dispatching a frame whose mode the dispatcher does not recognize   *)
(* (0x0B for one) produces a reply frame with the payload RESPONSE_FAIL    *)
(* (0x55) and the deviceId of the request, invokes no handler and leaves   *)
(* the SecuritySession unchanged; the dispatcher goes on: the listener is  *)
(* back in WAIT_DEVICE, free to take the next frame.                       *)
(***************************************************************************)
C14_UnknownMode ==
    [][ (Dispatching /\ mode \notin ((1..10) \cup {13})) =>
          /\ reply' # noReply
          /\ reply'.payload = <<85>>
          /\ reply'.deviceId = deviceId /\ reply'.mode = mode
          /\ invoked' = "none"
          /\ session' = session
          /\ dstate' = "WAIT_DEVICE" /\ flashOp' = "idle" ]_vars

\* mode 0x0B was refused in an unlocked session, which stays unlocked
C14_Witness ==
    /\ sent.mode = 11 /\ sent.deviceId = 244 /\ secState = "UNLOCKED"
    /\ reply # noReply /\ reply.payload = <<85>> /\ reply.deviceId = 244
    /\ dstate = "WAIT_DEVICE" /\ invoked = "none"

(***************************************************************************)
(* C15 as stated: a mode-6 request in LOCKED is rejected without invoking  *)
(* the handler; after a correct seed/key exchange one mode-6 request is    *)
(* dispatched to the handler; a second mode-6 request is dispatched only   *)
(* if a fresh seed/key exchange has succeeded in between.                  *)
(***************************************************************************)
C15_FreshExchangePerRequest ==
    [][ (Dispatching /\ mode = 6) =>
          /\ secState = "LOCKED" =>
                (invoked' = "none" /\ reply' # noReply /\ reply'.payload = <<204>>)
          /\ invoked' = "mode6" => (secState = "UNLOCKED" /\ unlockUses = 0) ]_vars

(***************************************************************************)
(* C15 amended: a mode-6 request in LOCKED is rejected without invoking    *)
(* the handler; after a correct seed/key exchange in the connection every  *)
(* mode-6 request of that connection is dispatched to the handler, the     *)
(* second and later ones without a further exchange (UNLOCKED is terminal  *)
(* for the connection).                                                    *)
(***************************************************************************)
C15_ModeSixGate ==
    [][ (Dispatching /\ mode = 6) =>
          /\ secState = "LOCKED" =>
                (invoked' = "none" /\ reply' # noReply /\ reply'.payload = <<204>>)
          /\ invoked' = "mode6" <=> secState = "UNLOCKED"
          /\ invoked' = "mode6" => (unlockedIn = conn /\ secState' = "UNLOCKED") ]_vars

\* the second mode-6 request under one unlock is with the handler
C15_Witness ==
    /\ invoked = "mode6" /\ flashOp = "mode6" /\ unlockUses = 2
    /\ secState = "UNLOCKED" /\ unlockedIn = conn

(***************************************************************************)
(* C16: UNLOCKED is terminal for the connection: once the session is       *)
(* UNLOCKED no frame (seed request, key submission, mode 5/6 request, any  *)
(* other mode) changes the session; within a connection the only changes   *)
(* of state are LOCKED to SEED_ISSUED, SEED_ISSUED to UNLOCKED and         *)
(* SEED_ISSUED to LOCKED.                                                  *)
(***************************************************************************)
C16_UnlockedTerminal ==
    [][ conn' = conn =>
          /\ secState = "UNLOCKED" => session' = session
          /\ secState' # secState =>
                <<secState, secState'>> \in
                    {<<"LOCKED", "SEED_ISSUED">>, <<"SEED_ISSUED", "UNLOCKED">>,
                     <<"SEED_ISSUED", "LOCKED">>} ]_vars

\* a seed request was handled in UNLOCKED and refused
C16_Witness ==
    /\ secState = "UNLOCKED" /\ sent.mode = 13 /\ sent.payload = <<1>>
    /\ invoked = "security" /\ reply # noReply /\ reply.payload = <<1, 204>>

(***************************************************************************)
(* C17: a bus reset, a disconnect or an idle timeout sets the session to   *)
(* LOCKED from every session state, and every new connection starts in     *)
(* LOCKED whatever state the previous one ended in; a mode 5/6 request is  *)
(* passed to its handler only under an unlock obtained in the same         *)
(* connection.                                                             *)
(***************************************************************************)
C17_ResetLocks ==
    [][ /\ conn' # conn => (secState' = "LOCKED" /\ seedHi' = 0 /\ seedLo' = 0)
        /\ (Dispatching /\ invoked' \in {"mode5", "mode6"}) => unlockedIn = conn ]_vars

\* unlocked in connection 1; a mode-6 request of connection 2 was refused
C17_Witness ==
    /\ conn = 2 /\ unlockedIn = 1 /\ secState = "LOCKED"
    /\ sent.mode = 6 /\ invoked = "none"
    /\ reply # noReply /\ reply.payload = <<204>>

(***************************************************************************)
(* C20: while a mode 5/6 upload-and-execute operation is in progress no    *)
(* frame of another conversation is dispatched and no byte of one is       *)
(* decoded: the handling of all other traffic begins after the operation   *)
(* has finished. At most one request is in the listener's hands at any     *)
(* time (a decoded frame awaiting dispatch or a running mode 5/6           *)
(* operation, never both), and at most one frame is on the transport.      *)
(***************************************************************************)
C20_FlashCritical ==
    [][ /\ (flashOp # "idle" /\ conn' = conn) =>
              /\ ~Dispatching
              /\ dstate' = dstate /\ deviceId' = deviceId /\ payload' = payload
              /\ Len(wire') >= Len(wire)
              /\ secState' = secState
        /\ ~(flashOp' # "idle" /\ dstate' = "DONE")
        /\ Len(wire') <= Len(sent'.bytes)
        /\ (flashOp = "idle" /\ flashOp' # "idle") => Dispatching ]_vars

\* a mode-4 request arrived during an upload and waits on the transport
C20_Witness ==
    /\ flashOp = "mode6" /\ sent.mode = 4
    /\ wire = sent.bytes /\ dstate = "WAIT_DEVICE"

(***************************************************************************)
(* C18: a patch write is accepted only if every address it writes lies in  *)
(* the window [0x5D00, 0x6000), and then writes exactly the addresses      *)
(* asked for; a write that starts before the window, starts after it, or   *)
(* starts inside it and runs past its end fails with PatchOverflow and     *)
(* writes nothing: it is not clamped to the window.                        *)
(***************************************************************************)
C18_PatchGuard ==
    (pc = "done" /\ fn = "patchWrite") =>
        LET first == arg[1]
            asked == arg[1]..(arg[1] + arg[2] - 1)
        IN  /\ ret.err \in {"none", "PatchOverflow"}
            /\ ret.err = "none" =>
                  /\ \A a \in asked : 23808 <= a /\ a < 24576
                  /\ ret.written = asked
            /\ (first < 23808 \/ first >= 24576 \/ first + arg[2] > 24576) =>
                  (ret.err = "PatchOverflow" /\ ret.written = {})
            /\ (asked # {} /\ \A a \in asked : 23808 <= a /\ a < 24576) =>
                  ret.err = "none"

\* two bytes at the last address of the window: refused, nothing written
C18_Witness ==
    /\ pc = "done" /\ fn = "patchWrite" /\ arg = <<24575, 2>>
    /\ ret = [err |-> "PatchOverflow", written |-> {}]

(***************************************************************************)
(* C19: a translation whose bankId is none of BANK1 (0x48), BANK2 (0x58),  *)
(* BANK3 (0x50) fails with BankOutOfRange and returns no file offset, for  *)
(* every cpuAddr.                                                          *)
(***************************************************************************)
C19_BankOutOfRange ==
    (pc = "done" /\ fn = "translate" /\ arg[1] \notin {72, 88, 80}) =>
        /\ ret.err = "BankOutOfRange"
        /\ DOMAIN ret = {"err"}

C19_Witness ==
    /\ pc = "done" /\ fn = "translate" /\ arg = <<96, 32768>>
    /\ ret = [err |-> "BankOutOfRange"]

(***************************************************************************)
(* C21: every mode-4 request addressed to the responder is answered with   *)
(* exactly the five bytes F7 56 04 status checksum, the checksum chosen so *)
(* that the five bytes sum to 0 modulo 256.                                *)
(***************************************************************************)
C21_ReplyWithChecksum ==
    txd # <<>> =>
        /\ Len(txd) = 5
        /\ SubSeq(txd, 1, 3) = <<247, 86, 4>>
        /\ txd[4] \in {0, 1}
        /\ SumSeq(txd) % 256 = 0

(***************************************************************************)
(* C22: a step of handle_mode4 leaves PORTB bit 0 equal to bit 0 of the    *)
(* control byte it read, leaves the other seven bits of PORTB as they      *)
(* were, and the status byte it transmits is the new PORTB bit 0.          *)
(***************************************************************************)
C22_PortbBit0 ==
    [][(rpc = "rx_control" /\ sci # <<>> /\ sci' = Tail(sci)) =>
          /\ portb' % 2 = Head(sci) % 2
          /\ portb' \div 2 = portb \div 2
          /\ Len(txd') = Len(txd) + 4
          /\ txd'[Len(txd) + 4] = portb' % 2]_vars

\* control byte FE on a port holding 0x81: bit 0 cleared, bit 7 kept,
\* status 0 sent
C22_Witness ==
    /\ sent.deviceId = 247 /\ sent.mode = 4 /\ sent.payload = <<254>>
    /\ rpc = "rx_target" /\ sci = <<>>
    /\ portb = 128 /\ txd = <<247, 86, 4, 0>>

(***************************************************************************)
(* examples/fan_control.c: main clears fan_on and then calls fan_update    *)
(* and software_delay for ever. fan_update takes one reading of the        *)
(* coolant channel (ADR1 after the conversion completes: any byte) and     *)
(* switches PORTB bit 0 with hysteresis. fan_on lives in zero page and     *)
(* holds whatever the RAM held until main clears it; temp_raw is -1 until  *)
(* the first reading is taken.                                             *)
(***************************************************************************)
FAN_ON_THRESHOLD == 98

\* a variant without hysteresis: the fan switches off below the on threshold
FAN_OFF_THRESHOLD_asOn == FAN_ON_THRESHOLD
FAN_OFF_THRESHOLD == 90

\* what the zero-page byte may hold before main has run
RamSample == {0, 1, 255}

\* fan_on = 0;
fan_main ==
    /\ fn = "fan_control" /\ pc = "main"
    /\ fan_on' = 0
    /\ pc' = "update"
    /\ UNCHANGED <<fn, arg, ret, temp_raw, limiter_active, flags, rpm,
                   decVars, secVars, conVars, rspVars>>

\* temp_raw = read_coolant_adc(); then the two-state hysteresis
fan_update ==
    /\ fn = "fan_control" /\ pc = "update"
    /\ \E reading \in Byte :
          /\ temp_raw' = reading
          /\ IF fan_on = 0
             THEN IF reading >= FAN_ON_THRESHOLD
                  THEN portb' = setBit0(portb) /\ fan_on' = 1
                  ELSE UNCHANGED <<portb, fan_on>>
             ELSE IF reading < FAN_OFF_THRESHOLD
                  THEN portb' = clearBit0(portb) /\ fan_on' = 0
                  ELSE UNCHANGED <<portb, fan_on>>
    /\ pc' = "delay"
    /\ UNCHANGED <<fn, arg, ret, limiter_active, flags, rpm,
                   sci, rpc, fan_state, txd, decVars, secVars, conVars>>

\* the busy-wait between two updates
software_delay ==
    /\ fn = "fan_control" /\ pc = "delay"
    /\ pc' = "update"
    /\ UNCHANGED <<fn, arg, ret, appVars, decVars, secVars, conVars, rspVars>>

InitFan ==
    /\ idleDec /\ idleSec /\ idleCon
    /\ fn = "fan_control" /\ pc = "main" /\ arg = <<>> /\ ret = -1
    /\ sci = <<>> /\ rpc = "off" /\ fan_state = 0 /\ txd = <<>>
    /\ portb \in PortSample
    /\ fan_on \in RamSample
    /\ temp_raw = -1
    /\ limiter_active = 0 /\ flags = 0 /\ rpm = 0

NextFan == fan_main \/ fan_update \/ software_delay

SpecFan == InitFan /\ [][NextFan]_vars

(***************************************************************************)
(* C23: once main has cleared fan_on, a call of fan_update turns the fan   *)
(* on only on a reading >= 0x62 and off only on a reading < 0x5A; a        *)
(* reading in 0x5A..0x61 changes neither fan_on nor PORTB; a change of     *)
(* state sets PORTB bit 0 to the new state and keeps bits 1..7; and a      *)
(* reading equal to the one of the call before never changes the state,    *)
(* so that no reading causes two changes in a row.                         *)
(***************************************************************************)
C23_Hysteresis ==
    [][(fn = "fan_control" /\ pc = "update" /\ pc' = "delay") =>
          /\ fan_on \in {0, 1} /\ fan_on' \in {0, 1}
          /\ (fan_on = 0 /\ fan_on' = 1) => temp_raw' >= 98
          /\ (fan_on = 1 /\ fan_on' = 0) => temp_raw' < 90
          /\ temp_raw' \in 90..97 => (fan_on' = fan_on /\ portb' = portb)
          /\ fan_on' # fan_on =>
                (portb' % 2 = fan_on' /\ portb' \div 2 = portb \div 2)
          /\ temp_raw' = temp_raw => fan_on' = fan_on]_vars

\* the fan is on and a reading of 0x5A has just left it on
C23_Witness ==
    /\ fn = "fan_control" /\ pc = "delay"
    /\ fan_on = 1 /\ temp_raw = 90 /\ portb = 129

(***************************************************************************)
(* examples/rpm_limiter.c: main clears limiter_active and then calls       *)
(* check_rpm after every interrupt (WAI). check_rpm reads the RPM byte at  *)
(* $00A2 (any byte) and the flags byte at $0046, and sets or clears bit 7  *)
(* of the flags byte when limiter_active changes. main writes neither      *)
(* byte: the flags byte holds whatever the RAM held when main started.     *)
(***************************************************************************)
RPM_CUT_ON  == 240
RPM_CUT_OFF == 236
LIMITER_BIT == 128

\* flags | LIMITER_BIT and flags & 0x7F on a byte
orLimiterBit(f)    == (f % LIMITER_BIT) + LIMITER_BIT
clearLimiterBit(f) == f % LIMITER_BIT

\* what the flags byte may hold when main starts
FlagsSample == {0, 85, 128, 213}

\* limiter_active = 0;
rpm_main ==
    /\ fn = "rpm_limiter" /\ pc = "main"
    /\ limiter_active' = 0
    /\ pc' = "check"
    /\ UNCHANGED <<fn, arg, ret, fan_on, temp_raw, flags, rpm,
                   decVars, secVars, conVars, rspVars>>

check_rpm ==
    /\ fn = "rpm_limiter" /\ pc = "check"
    /\ \E r \in Byte :
          /\ rpm' = r
          /\ IF limiter_active = 0
             THEN IF r >= RPM_CUT_ON
                  THEN limiter_active' = 1 /\ flags' = orLimiterBit(flags)
                  ELSE UNCHANGED <<limiter_active, flags>>
             ELSE IF r < RPM_CUT_OFF
                  THEN limiter_active' = 0 /\ flags' = clearLimiterBit(flags)
                  ELSE UNCHANGED <<limiter_active, flags>>
    /\ pc' = "wai"
    /\ UNCHANGED <<fn, arg, ret, fan_on, temp_raw,
                   decVars, secVars, conVars, rspVars>>

\* asm("WAI"): returns when an interrupt has been served
wai ==
    /\ fn = "rpm_limiter" /\ pc = "wai"
    /\ pc' = "check"
    /\ UNCHANGED <<fn, arg, ret, appVars, decVars, secVars, conVars, rspVars>>

InitRpm ==
    /\ idleDec /\ idleSec /\ idleCon /\ idleRsp
    /\ fn = "rpm_limiter" /\ pc = "main" /\ arg = <<>> /\ ret = -1
    /\ fan_on = 0 /\ temp_raw = 0
    /\ limiter_active \in RamSample
    /\ flags \in FlagsSample
    /\ rpm = 0

NextRpm == rpm_main \/ check_rpm \/ wai

SpecRpm == InitRpm /\ [][NextRpm]_vars

(***************************************************************************)
(* C24: once main has cleared limiter_active, every call of check_rpm      *)
(* leaves bit 7 of the flags byte at $0046 equal to limiter_active, which  *)
(* is set on an RPM byte >= 0xF0 and cleared on one < 0xEC, and leaves     *)
(* bits 0..6 of the flags byte as they were.                               *)
(***************************************************************************)
C24_FlagMirrorsLimiter ==
    [][(fn = "rpm_limiter" /\ pc = "check" /\ pc' = "wai") =>
          /\ flags' \div 128 = limiter_active'
          /\ flags' % 128 = flags % 128
          /\ rpm' >= 240 => limiter_active' = 1
          /\ rpm' < 236 => limiter_active' = 0]_vars

(***************************************************************************)
(* C25: the session becomes UNLOCKED only by the dispatch of a key         *)
(* submission, received in SEED_ISSUED, whose key equals                   *)
(* (37709 - (seedLo*256 + seedHi)) mod 65536 for the recorded seed; the    *)
(* recorded seed is the one sent in the reply to the latest seed request   *)
(* of the connection (it changes only when a seed request is answered      *)
(* with it, and a new connection starts LOCKED); a key submission in       *)
(* LOCKED leaves the session LOCKED and is answered 0xCC; and every key    *)
(* submission ends the seed's use: the session is never SEED_ISSUED after  *)
(* it.                                                                     *)
(***************************************************************************)
KeySubmission  == Dispatching /\ mode = 13 /\ lengthByte = 88
SeedRequesting == Dispatching /\ mode = 13 /\ lengthByte = 87

C25_UnlockNeedsFreshKey ==
    [][ /\ (secState # "UNLOCKED" /\ secState' = "UNLOCKED") =>
              /\ KeySubmission
              /\ secState = "SEED_ISSUED"
              /\ payload[1] * 256 + payload[2]
                    = (37709 - (seedLo * 256 + seedHi)) % 65536
        /\ (KeySubmission /\ secState = "LOCKED") =>
              (secState' = "LOCKED" /\ reply'.payload[2] = 204)
        /\ KeySubmission => secState' # "SEED_ISSUED"
        /\ (secState # "SEED_ISSUED" /\ secState' = "SEED_ISSUED") =>
              SeedRequesting
        /\ (<<seedHi', seedLo'>> # <<seedHi, seedLo>> /\ conn' = conn) =>
              /\ SeedRequesting
              /\ secState' = "SEED_ISSUED"
              /\ reply'.payload = <<payload[1], seedHi', seedLo'>>
        /\ conn' # conn => secState' = "LOCKED" ]_vars

\* the key of the seed (64, 156), submitted again after a wrong key had
\* returned the session to LOCKED: rejected
C25_Witness ==
    /\ secState = "LOCKED" /\ seedHi = 64 /\ seedLo = 156
    /\ sent.mode = 13 /\ sent.payload = <<247, 13>>
    /\ invoked = "security"
    /\ reply # noReply /\ reply.payload[2] = 204

(***************************************************************************)
(* C26: translation is injective over the combined image: two locations    *)
(* (an unbanked cpuAddr in 0..0x7FFF, whatever bank is paged in, or a pair *)
(* of a bank and a cpuAddr in 0x8000..0xFFFF) that translate to the same   *)
(* file offset are the same location, and every offset lies in             *)
(* 0x00000..0x1FFFF: below 0x10000 for bank 1 and the unbanked addresses,  *)
(* from 0x10000 for bank 2 and from 0x18000 for bank 3.                    *)
(***************************************************************************)
sameLocation(b1, a1, b2, a2) == a1 = a2 /\ (a1 >= 32768 => b1 = b2)

C26_TranslateInjective ==
    (pc = "done" /\ fn = "translate" /\ arg[1] \in {72, 88, 80}) =>
        /\ ret.err = "none"
        /\ ret.offset \in 0..131071
        /\ (arg[2] < 32768 \/ arg[1] = 72) => ret.offset < 65536
        /\ (arg[2] >= 32768 /\ arg[1] = 88) => ret.offset \in 65536..98303
        /\ (arg[2] >= 32768 /\ arg[1] = 80) => ret.offset \in 98304..131071
        /\ \A b2 \in {72, 88, 80}, a2 \in AddrSample :
              translate(b2, a2).offset = ret.offset =>
                  sameLocation(arg[1], arg[2], b2, a2)

\* the last byte of bank 2 and, in another call, the first byte of bank 3
\* lie next to each other in the file
C26_Witness ==
    /\ pc = "done" /\ fn = "translate" /\ arg = <<88, 65535>>
    /\ ret = [err |-> "none", offset |-> 98303]
    /\ translate(80, 32768).offset = 98304

(***************************************************************************)
(* C27: calculate_security_key is a bijection on the 16-bit values: the    *)
(* seed of every call is recovered from its key as (37709 - key) mod       *)
(* 65536, so no two of the 65536 seeds share a key, and no other seed      *)
(* among the probes has the key of the call; the 32-bit value after the    *)
(* wrap step lies in 0..65535; and (key + seedLo*256 + seedHi) mod 65536   *)
(* is 37709.                                                               *)
(***************************************************************************)
KeyProbes == {<<0, 0>>, <<64, 156>>, <<77, 147>>, <<78, 147>>, <<255, 255>>}

C27_KeyBijection ==
    (pc = "done" /\ fn = "calculate_security_key") =>
        LET seed == arg[2] * 256 + arg[1]
        IN  /\ ret \in 0..65535
            /\ security_key_wrapped(arg[1], arg[2]) \in 0..65535
            /\ (ret + seed) % 65536 = 37709
            /\ (37709 - ret) % 65536 = seed
            /\ \A q \in KeyProbes :
                  calculate_security_key(q[1], q[2]) = ret => q = arg

\* seed 37710, one above the magic number: the difference -1 wraps to the
\* largest key
C27_Witness ==
    /\ pc = "done" /\ fn = "calculate_security_key"
    /\ arg = <<78, 147>> /\ ret = 65535

====
